---- MODULE Spec2Model ----
(***************************************************************************)
(* Shaders of Epoch of Elria (the cel shader, shaders/bloom.frag,          *)
(* spiral.frag, outline.frag, composite.frag) as operators over decimal    *)
(* fixed-point numbers, and the draw calls that apply them to one tracked  *)
(* fragment and the window of texels its result depends on; the chunk      *)
(* streaming of the browser terrain demo; and the command loop of the 3D   *)
(* sandbox.                                                                *)
(*                                                                         *)
(* A GLSL float is an integer count of 1e-7 units (Scale = 1.0): the       *)
(* shader literals have at most seven decimals, so every literal is exact. *)
(* Products and quotients are rounded to the nearest unit.                 *)
(***************************************************************************)
EXTENDS Integers, Sequences, FiniteSets, TLC

VARIABLES uniforms, TexCoord, vNormal, vPos, uScene, uDepth, uNormals, uBloom,
          uOutlines, brightBuf, blurBuf, FragColor, pc,
          player, camera, loaded, frameStamp, playerG,
          running, showHelp, cin, command, cout, gameTime

\* the terrain demo's state
terrain == <<player, camera, loaded, frameStamp, playerG>>

\* the 3D sandbox's state
sandbox == <<running, showHelp, cin, command, cout, gameTime>>

\* the shaders' inputs and render targets
shaders == <<uniforms, TexCoord, vNormal, vPos, uScene, uDepth, uNormals,
             uBloom, uOutlines, brightBuf, blurBuf, FragColor>>

vars == <<shaders, terrain, sandbox, pc>>

---------------------------------------------------------------------------
(* float arithmetic *)

Scale == 10^7

Half == Scale \div 2

Base == 10^4

Abs(a) == IF a < 0 THEN -a ELSE a

Max(a, b) == IF a > b THEN a ELSE b

Min(a, b) == IF a < b THEN a ELSE b

\* a * b, rounded to the nearest unit; the product is formed from the
\* base-10^4 digits of a and b so that no intermediate exceeds 32 bits.
Mul(a, b) ==
  LET ah == a \div Base
      al == a % Base
      bh == b \div Base
      bl == b % Base
      M  == ah * bl + al * bh
      L  == al * bl
  IN  10 * ah * bh + ((M + ((L + Half) \div Base)) \div 1000)

\* the first n decimal digits of r / b, for 0 <= r < b
RECURSIVE Frac(_, _, _)
Frac(r, b, n) ==
  IF n = 0 THEN (IF 2 * r >= b THEN 1 ELSE 0)
  ELSE LET t == r * 10
       IN  (t \div b) * 10^(n - 1) + Frac(t % b, b, n - 1)

\* a / b for b # 0, rounded to the nearest unit
Div(a, b) ==
  LET n == IF b < 0 THEN 0 - a ELSE a
      d == IF b < 0 THEN 0 - b ELSE b
  IN  (n \div d) * Scale + Frac(n % d, d, 7)

\* what a division by zero may leave in a float
UndefinedFloats == {0, Scale, -Scale, 4 * Scale}

Clamp(x, lo, hi) == Min(Max(x, lo), hi)

\* sqrt(a) by Newton's iteration r <- (r + a / r) / 2, run to its fixed point
RECURSIVE SqrtIter(_, _, _)
SqrtIter(a, r, n) ==
  LET next == (r + Div(a, r)) \div 2
  IN  IF n = 0 \/ Abs(next - r) <= 1 THEN next ELSE SqrtIter(a, next, n - 1)

Sqrt(a) == IF a <= 0 THEN 0 ELSE SqrtIter(a, Max(a, Scale), 40)

Pi == 31415927

\* sin on [-pi/2, pi/2]: the Taylor polynomial through x^11
SinPoly(x) ==
  LET x2 == Mul(x, x)
      t5 == Scale - (x2 \div 110)
      t4 == Scale - (Mul(x2, t5) \div 72)
      t3 == Scale - (Mul(x2, t4) \div 42)
      t2 == Scale - (Mul(x2, t3) \div 20)
      t1 == Scale - (Mul(x2, t2) \div 6)
  IN  Mul(x, t1)

Sin(x) ==
  LET r == x % (2 * Pi)
  IN  IF r <= Pi \div 2 THEN SinPoly(r)
      ELSE IF r <= Pi + Pi \div 2 THEN SinPoly(Pi - r)
      ELSE SinPoly(r - 2 * Pi)

Cos(x) == Sin(x + Pi \div 2)

\* atan on [-1, 1]: Abramowitz and Stegun 4.4.49
AtanPoly(z) ==
  LET z2 == Mul(z, z)
      p8 == 28662
      p7 == Mul(z2, p8) - 161657
      p6 == Mul(z2, p7) + 429096
      p5 == Mul(z2, p6) - 752896
      p4 == Mul(z2, p5) + 1065626
      p3 == Mul(z2, p4) - 1420890
      p2 == Mul(z2, p3) + 1999355
      p1 == Mul(z2, p2) - 3333315
      p0 == Mul(z2, p1) + Scale
  IN  Mul(z, p0)

\* atan(y, x) for (x, y) # (0, 0), in (-pi, pi]
Atan(y, x) ==
  IF Abs(y) <= Abs(x)
  THEN LET a == AtanPoly(Div(y, x))
       IN  IF x > 0 THEN a ELSE IF y >= 0 THEN a + Pi ELSE a - Pi
  ELSE LET a == AtanPoly(Div(x, y))
       IN  IF y > 0 THEN Pi \div 2 - a ELSE 0 - Pi \div 2 - a

\* smoothstep(e0, e1, x): t = clamp((x - e0) / (e1 - e0), 0, 1); t*t*(3 - 2t)
Smoothstep(e0, e1, x) ==
  LET t == IF x <= e0 THEN 0 ELSE IF x >= e1 THEN Scale
           ELSE Div(x - e0, e1 - e0)
  IN  Mul(Mul(t, t), 3 * Scale - 2 * t)

\* pow(x, e) for the exponents 1/gamma the model draws; the result is
\* undefined for x < 0
Pow(x, e, undef) ==
  IF x < 0 THEN undef
  ELSE CASE e = Scale     -> x
         [] e = Half      -> Sqrt(x)
         [] e = 2 * Scale -> Mul(x, x)

\* mix(x, y, a) = x * (1 - a) + y * a
Mix(x, y, a) == Mul(x, Scale - a) + Mul(y, a)

Dot(a, b) == Mul(a[1], b[1]) + Mul(a[2], b[2]) + Mul(a[3], b[3])

VScale(v, s) == <<Mul(v[1], s), Mul(v[2], s), Mul(v[3], s)>>

VAdd(a, b) == <<a[1] + b[1], a[2] + b[2], a[3] + b[3]>>

VSub(a, b) == <<a[1] - b[1], a[2] - b[2], a[3] - b[3]>>

VMix(a, b, t) == <<Mix(a[1], b[1], t), Mix(a[2], b[2], t), Mix(a[3], b[3], t)>>

Vec3(x) == <<x, x, x>>

Rgb(c) == <<c[1], c[2], c[3]>>

Length2(v) == Sqrt(Mul(v[1], v[1]) + Mul(v[2], v[2]))

Length3(v) == Sqrt(Dot(v, v))

\* normalize(v); the zero vector has no direction
Normalize(v, undef) ==
  IF Length3(v) = 0 THEN Vec3(undef)
  ELSE <<Div(v[1], Length3(v)), Div(v[2], Length3(v)), Div(v[3], Length3(v))>>

Floor(x) == (x \div Scale) * Scale

\* 1 + x/k * (1 + x/(k+1) * (... (1 + x/n)))
RECURSIVE ExpSeries(_, _, _)
ExpSeries(x, k, n) ==
  IF k > n THEN Scale ELSE Scale + Mul(x, ExpSeries(x, k + 1, n)) \div k

\* exp(x): the series for |x| <= 0.5, the square of exp(x / 2) beyond
RECURSIVE Exp(_)
Exp(x) ==
  IF Abs(x) <= Half THEN ExpSeries(x, 1, 10)
  ELSE Mul(Exp(x \div 2), Exp(x \div 2))

---------------------------------------------------------------------------
(* textures: an image is given by its kind and a colour; texture() reads   *)
(* it at a coordinate.                                                     *)
(*   uniform: the colour everywhere                                        *)
(*   ramp:    red = u, green = v (clamped to the edge), blue = color[3]    *)
(*   stepx/stepy: color where u (v) < 0.5, black elsewhere                 *)

Texture(tex, uv) ==
  CASE tex.kind = "uniform" -> tex.color
    [] tex.kind = "ramp" ->
         <<Clamp(uv[1], 0, Scale), Clamp(uv[2], 0, Scale), tex.color[3]>>
    [] tex.kind = "stepx" ->
         IF uv[1] < Half THEN tex.color ELSE <<0, 0, 0>>
    [] tex.kind = "stepy" ->
         IF uv[2] < Half THEN tex.color ELSE <<0, 0, 0>>

\* the texel offsets a 9-tap blur reaches
Taps == -4 .. 4

Window == Taps \X Taps

Offset(uv, px, i, j) == <<uv[1] + px[1] * i, uv[2] + px[2] * j>>

---------------------------------------------------------------------------
(* bloom.frag *)

\* a kernel whose centre weight lost a digit
weightsTypo == <<2270270 * 10, 1945946, 1216216, 540540, 162160>>

weights == <<2270270, 1945946, 1216216, 540540, 162160>>

Luma(color) == Dot(color, <<2126000, 7152000, 722000>>)

NeonBias(color) ==
  Max(Dot(color, <<Scale, 7000000, 0>>), Dot(color, <<0, 7000000, Scale>>))

\* brightness without the neon bias
BrightnessLumaOnly(color) == Luma(color)

Brightness(color) == Max(Luma(color), Mul(NeonBias(color), 8000000))

DynamicThreshold(u) ==
  Mix(Mul(u.uBloomThreshold, 12000000), Mul(u.uBloomThreshold, 8000000),
      u.uTimeOfDay)

\* the boundary made inclusive
AboveOrAtThreshold(brightness, threshold) == brightness >= threshold

\* the comparison turned round
BelowThreshold(brightness, threshold) == brightness < threshold

AboveThreshold(brightness, threshold) == brightness > threshold

\* (brightness - threshold) / (1.0 - threshold); undef stands for the
\* result when the denominator is zero
BloomFactor(brightness, threshold, undef) ==
  IF Scale - threshold = 0 THEN undef
  ELSE Div(brightness - threshold, Scale - threshold)

\* uPass == 0
BrightPassFS(color, u, undef) ==
  LET brightness == Brightness(color)
      threshold  == DynamicThreshold(u)
  IN  IF AboveThreshold(brightness, threshold)
      THEN LET f == BloomFactor(brightness, threshold, undef)
           IN  <<Mul(color[1], f), Mul(color[2], f), Mul(color[3], f), Scale>>
      ELSE <<0, 0, 0, Scale>>

\* a blur that forgets the taps on the negative side
RECURSIVE BlurSumOneSided(_, _, _)
BlurSumOneSided(tap, k, i) ==
  IF i = 0 THEN Mul(tap[0][k], weights[1])
  ELSE BlurSumOneSided(tap, k, i - 1) + Mul(tap[i][k], weights[i + 1])

\* result = tap(0) * weights[0];
\* for i in 1..4: result += tap(i) * weights[i]; result += tap(-i) * weights[i]
RECURSIVE BlurSum(_, _, _)
BlurSum(tap, k, i) ==
  IF i = 0 THEN Mul(tap[0][k], weights[1])
  ELSE BlurSum(tap, k, i - 1) + Mul(tap[i][k], weights[i + 1])
                              + Mul(tap[0 - i][k], weights[i + 1])

Blur9(tap) == <<BlurSum(tap, 1, 4), BlurSum(tap, 2, 4), BlurSum(tap, 3, 4)>>

\* uPass == 1
BlurHorizontalFS(tap) ==
  LET result == Blur9(tap)
  IN  <<result[1], result[2], result[3], Scale>>

\* the intensity mixed by uTimeOfDay instead of 1.0 - uTimeOfDay
BloomIntensityFlipped(u) ==
  Mix(Mul(u.uBloomIntensity, 7000000), Mul(u.uBloomIntensity, 13000000),
      u.uTimeOfDay)

BloomIntensity(u) ==
  Mix(Mul(u.uBloomIntensity, 7000000), Mul(u.uBloomIntensity, 13000000),
      Scale - u.uTimeOfDay)

\* uPass == 2
BlurVerticalFS(tap, u) ==
  LET result    == Blur9(tap)
      intensity == BloomIntensity(u)
  IN  <<Mul(result[1], intensity), Mul(result[2], intensity),
        Mul(result[3], intensity), Scale>>

---------------------------------------------------------------------------
(* spiral.frag *)

\* delta = uv - center; distance = length(delta)
SpiralDelta(uv, u) ==
  <<uv[1] - u.uSpiralCenter[1], uv[2] - u.uSpiralCenter[2]>>

SpiralDistance(uv, u) == Length2(SpiralDelta(uv, u))

\* the warp guarded by the radius alone
InSpiralAnyIntensity(distance, u) == distance < u.uSpiralRadius

\* the warp guarded by a positive radius instead of the distance
InSpiralBeyondRadius(distance, u) ==
  u.uSpiralRadius > 0 /\ u.uSpiralIntensity > 0

InSpiral(distance, u) ==
  distance < u.uSpiralRadius /\ u.uSpiralIntensity > 0

\* atan(delta.y, delta.x); undefAngle stands for atan(0, 0)
SpiralAngle0(delta, undefAngle) ==
  IF delta = <<0, 0>> THEN undefAngle ELSE Atan(delta[2], delta[1])

\* spiral = uSpiralIntensity * (1.0 - distance / uSpiralRadius)
SpiralAmount(distance, u) ==
  Mul(u.uSpiralIntensity, Scale - Div(distance, u.uSpiralRadius))

TimeSpiral(distance, u) == Mul(u.uTime, Half) + Mul(distance, 8 * Scale)

SpiralSpeed(u) == Mix(Scale, 2 * Scale, Scale - u.uTimeOfDay)

\* angle += spiral * sin(timeSpiral * spiralSpeed) * 0.3
SpiralAngle(angle0, spiral, timeSpiral, spiralSpeed) ==
  angle0 + Mul(Mul(spiral, Sin(Mul(timeSpiral, spiralSpeed))), 3000000)

\* newDistance = distance * (1.0 + spiral * 0.1 * sin(timeSpiral))
NewDistance(distance, spiral, timeSpiral) ==
  Mul(distance, Scale + Mul(Mul(spiral, 1000000), Sin(timeSpiral)))

\* spiralUV = center + vec2(cos(angle), sin(angle)) * newDistance;
\* uv = mix(uv, spiralUV, spiral)
BlendUV(uv, center, angle, newDistance, spiral) ==
  <<Mix(uv[1], center[1] + Mul(Cos(angle), newDistance), spiral),
    Mix(uv[2], center[2] + Mul(Sin(angle), newDistance), spiral)>>

WarpWith(uv, u, distance, angle0, spiral, timeSpiral) ==
  BlendUV(uv, u.uSpiralCenter,
          SpiralAngle(angle0, spiral, timeSpiral, SpiralSpeed(u)),
          NewDistance(distance, spiral, timeSpiral), spiral)

Warp(uv, u, undefAngle, distance) ==
  WarpWith(uv, u, distance, SpiralAngle0(SpiralDelta(uv, u), undefAngle),
           SpiralAmount(distance, u), TimeSpiral(distance, u))

\* the coordinate the scene is sampled at
SpiralUVAt(uv, u, undefAngle, distance) ==
  IF InSpiral(distance, u) THEN Warp(uv, u, undefAngle, distance) ELSE uv

SpiralUV(uv, u, undefAngle) ==
  SpiralUVAt(uv, u, undefAngle, SpiralDistance(uv, u))

InGlow(distance, u) ==
  distance < Mul(u.uSpiralRadius, 8000000) /\ u.uSpiralIntensity > 3000000

GlowAmount(distance, u) ==
  Mul(Scale - Div(distance, Mul(u.uSpiralRadius, 8000000)), u.uSpiralIntensity)

GlowColor(u) ==
  VMix(<<0, 7500000, Scale>>, <<Scale, 7000000, 700000>>, u.uTimeOfDay)

\* spiralGlow * glow * 0.1 * sin(uTime * 3.0 + distance * 10.0)
SpiralGlow(distance, u) ==
  VScale(VScale(VScale(GlowColor(u), GlowAmount(distance, u)), 1000000),
         Sin(Mul(u.uTime, 3 * Scale) + Mul(distance, 10 * Scale)))

AddGlow(color, distance, u) ==
  IF InGlow(distance, u) THEN VAdd(color, SpiralGlow(distance, u)) ELSE color

WithAlpha(c, a) == <<c[1], c[2], c[3], a>>

SpiralFS(tex, uv, u, undefAngle) ==
  WithAlpha(AddGlow(Texture(tex, SpiralUV(uv, u, undefAngle)),
                    SpiralDistance(uv, u), u),
            Scale)

-----
(* outline.frag *)

\* the four samples at TexCoord + vec2(-+uPixel.x, -+uPixel.y)
Corners == {<<-1, -1>>, <<1, -1>>, <<-1, 1>>, <<1, 1>>}

\* a gradient that adds the two samples
DepthEdgeSum(depth, uv, px) ==
  LET d00 == Texture(depth, Offset(uv, px, -1, -1))[1]
      d10 == Texture(depth, Offset(uv, px, 1, -1))[1]
      d01 == Texture(depth, Offset(uv, px, -1, 1))[1]
      d11 == Texture(depth, Offset(uv, px, 1, 1))[1]
      gx  == d10 + d00
      gy  == d11 + d01
  IN  Sqrt(Mul(gx, gx) + Mul(gy, gy))

DepthEdge(depth, uv, px) ==
  LET d00 == Texture(depth, Offset(uv, px, -1, -1))[1]
      d10 == Texture(depth, Offset(uv, px, 1, -1))[1]
      d01 == Texture(depth, Offset(uv, px, -1, 1))[1]
      d11 == Texture(depth, Offset(uv, px, 1, 1))[1]
      gx  == d10 - d00
      gy  == d11 - d01
  IN  Sqrt(Mul(gx, gx) + Mul(gy, gy))

NormalEdge(normals, uv, px) ==
  LET n00 == Texture(normals, Offset(uv, px, -1, -1))
      n10 == Texture(normals, Offset(uv, px, 1, -1))
      n01 == Texture(normals, Offset(uv, px, -1, 1))
      n11 == Texture(normals, Offset(uv, px, 1, 1))
      ngx == VSub(n10, n00)
      ngy == VSub(n11, n01)
  IN  Length3(ngx) + Length3(ngy)

EdgeThreshold(u) == Mix(150000, 250000, u.uTimeOfDay)

FinalEdgeColor(u) == VMix(<<0, 0, 0>>, u.uEdgeColor, Scale - u.uTimeOfDay)

OutlineFS(depth, normals, uv, u) ==
  LET edge         == Max(DepthEdge(depth, uv, u.uPixel),
                          Mul(NormalEdge(normals, uv, u.uPixel), Half))
      threshold    == EdgeThreshold(u)
      edgeStrength == Smoothstep(threshold, threshold + 100000, edge)
      color        == FinalEdgeColor(u)
  IN  <<color[1], color[2], color[3], Mul(edgeStrength, u.uEdgeScale)>>

---------------------------------------------------------------------------
(* composite.frag *)

BlueBias(u) == Mix(1000000, 3000000, Scale - u.uTimeOfDay)

colorGrade(color, u, undef) ==
  LET e    == Div(Scale, u.uGamma2)
      lgg  == <<Mul(Pow(color[1] + u.uLift, e, undef), u.uGain),
                Mul(Pow(color[2] + u.uLift, e, undef), u.uGain),
                Mul(Pow(color[3] + u.uLift, e, undef), u.uGain)>>
      luminance == Dot(lgg, <<2126000, 7152000, 722000>>)
      sat  == VMix(Vec3(luminance), lgg, u.uSaturation)
      blue == <<sat[1], sat[2],
                sat[3] + Mul(BlueBias(u), Scale - sat[3])>>
      grey == Dot(blue, <<2990000, 5870000, 1140000>>)
  IN  IF u.uWeatherIntensity > Half
      THEN VScale(VMix(blue, Vec3(grey), Mul(u.uWeatherIntensity, 3000000)),
                  Scale - Mul(u.uWeatherIntensity, 2000000))
      ELSE blue

\* c / (c + 1.0); undefined for c = -1.0
ReinhardChannel(c, undef) == IF c + Scale = 0 THEN undef ELSE Div(c, c + Scale)

Reinhard(color, undef) ==
  <<ReinhardChannel(color[1], undef), ReinhardChannel(color[2], undef),
    ReinhardChannel(color[3], undef)>>

NeonFactor(color) ==
  Max(Smoothstep(8000000, Scale, Mul(Mul(color[1], color[2]), Half)),
      Smoothstep(8000000, Scale, Mul(Mul(color[2], color[3]), Half)))

toneMap(color0, u, undef) ==
  LET color  == VScale(color0, u.uExposure)
      mapped == VMix(Reinhard(color, undef), VScale(color, 8000000),
                     Mul(NeonFactor(color), 3000000))
      e      == Div(Scale, u.uGamma)
  IN  <<Pow(mapped[1], e, undef), Pow(mapped[2], e, undef),
        Pow(mapped[3], e, undef)>>

\* vec3 color = scene + bloom
CombineSceneBloom(scene, bloom) == VAdd(scene, bloom)

\* the outline mix with its first two arguments exchanged
ApplyOutlinesSwapped(color, outline) == VMix(Rgb(outline), color, outline[4])

\* the outline mix with its blend factor inverted
ApplyOutlinesInverted(color, outline) ==
  VMix(color, Rgb(outline), Scale - outline[4])

\* mix(color, outline.rgb, outline.a)
ApplyOutlines(color, outline) == VMix(color, Rgb(outline), outline[4])

AtmosphericIntensity(u) == Mix(9500000, 10500000, Sin(Mul(u.uTimeOfDay, 31415900)))

Vignette(uv) ==
  LET center == <<uv[1] - Half, uv[2] - Half>>
  IN  Scale - Mul(Mul(center[1], center[1]) + Mul(center[2], center[2]), 3000000)

\* the composite with the outlines mixed in after the atmospheric and
\* vignette multiplies
CompositeFSOutlinesLast(scene, bloom, outline, uv, u, undef) ==
  LET mapped == toneMap(colorGrade(CombineSceneBloom(scene, bloom), u, undef),
                        u, undef)
      lit    == VScale(VScale(mapped, AtmosphericIntensity(u)), Vignette(uv))
      outlined == ApplyOutlines(lit, outline)
  IN  <<outlined[1], outlined[2], outlined[3], Scale>>

CompositeFS(scene, bloom, outline, uv, u, undef) ==
  LET combined == CombineSceneBloom(scene, bloom)
      graded   == colorGrade(combined, u, undef)
      mapped   == toneMap(graded, u, undef)
      outlined == ApplyOutlines(mapped, outline)
      lit      == VScale(VScale(outlined, AtmosphericIntensity(u)), Vignette(uv))
  IN  <<lit[1], lit[2], lit[3], Scale>>

---------------------------------------------------------------------------
(* the cel shader *)

\* ndl = max(dot(N, normalize(uLightDir)), 0.0)
CelNdl(normal, u, undef) ==
  Max(Dot(Normalize(normal, undef), Normalize(u.uLightDir, undef)), 0)

\* stepped = floor(ndl * uStepCount) / (uStepCount - 1.0)
CelStepped(ndl, u, undef) ==
  IF u.uStepCount - Scale = 0 THEN undef
  ELSE Div(Floor(Mul(ndl, u.uStepCount)), u.uStepCount - Scale)

CelBase(u) == VMix(u.uBaseColor, u.uFogColor, Mul(u.uFogDensity, 3000000))

CelColor(stepped, u) == VMix(CelBase(u), u.uAccent2, stepped + u.uBlueBias)

DayIntensity(u) == Sin(Mul(u.uTimeOfDay, 31415900))

CelDayNight(color, u) ==
  IF DayIntensity(u) > 0
  THEN VMix(color, u.uAccent1, Mul(DayIntensity(u), 2000000))
  ELSE VMix(color, u.uAccent2, Mul(Abs(DayIntensity(u)), 4000000))

\* the storm branch taken from 0.5 on
CelStormFromHalf(u) == u.uWeatherIntensity >= Half

CelStorm(u) == u.uWeatherIntensity > Half

\* color *= 1.0 - w * 0.3; color = mix(color, vec3(0.1, 0.15, 0.25), w * 0.2)
CelWeather(color, u) ==
  IF CelStorm(u)
  THEN VMix(VScale(color, Scale - Mul(u.uWeatherIntensity, 3000000)),
            <<1000000, 1500000, 2500000>>, Mul(u.uWeatherIntensity, 2000000))
  ELSE color

\* the colour before the rim glow
CelLit(normal, u, undef) ==
  CelWeather(CelDayNight(CelColor(CelStepped(CelNdl(normal, u, undef), u,
                                             undef), u), u), u)

\* rim = 1.0 - max(dot(N, normalize(-vPos)), 0.0)
CelRim(normal, pos, undef) ==
  Scale - Max(Dot(Normalize(normal, undef),
                  Normalize(VSub(<<0, 0, 0>>, pos), undef)), 0)

CelRimGlow(color, rim, u) ==
  IF rim > 7500000
  THEN VMix(color, VMix(u.uAccent1, u.uAccent2, u.uTimeOfDay),
            Mul(Mul(rim, u.uGlow), Scale + u.uWeatherIntensity))
  ELSE color

\* color = mix(uFogColor, color, exp(-distance * uFogDensity))
CelFog(color, pos, u) ==
  VMix(u.uFogColor, color, Exp(0 - Mul(Length3(pos), u.uFogDensity)))

CelFS(normal, pos, u, undef) ==
  WithAlpha(CelFog(CelRimGlow(CelLit(normal, u, undef),
                              CelRim(normal, pos, undef), u), pos, u),
            Scale)

---------------------------------------------------------------------------
(* the WGSL cel shader *)

\* dot_product = max(dot(normal, light_dir), 0.0)
WgslDot(normal, undef) ==
  Max(Dot(Normalize(normal, undef),
          Normalize(<<Half, Scale, 3000000>>, undef)), 0)

\* stepped_light = floor(dot_product * step_count) / step_count
WgslStepped(dot_product) == Div(Floor(Mul(dot_product, 3 * Scale)), 3 * Scale)

\* day_factor + night_factor * 0.3
WgslBlend(u) ==
  Mul(u.is_day, u.transition_factor)
    + Mul(Mul(Scale - u.is_day, Scale - u.transition_factor), 3000000)

WgslFinalColor(stepped_light, u) ==
  VMix(<<1800000, 2500000, 3300000>>, <<Scale, 7000000, 700000>>,
       Mul(stepped_light, WgslBlend(u)))

WgslFS(normal, u, undef) ==
  WithAlpha(VMix(WgslFinalColor(WgslStepped(WgslDot(normal, undef)), u),
                 VScale(<<Half, 2000000, 8000000>>, u.weather_intensity),
                 1000000),
            Scale)

---------------------------------------------------------------------------
(* the browser terrain demo.  World coordinates are counted in thousandths *)
(* of a world unit, screen coordinates in thousandths of a pixel, speeds   *)
(* in thousandths of a world unit per second and dt in milliseconds.       *)

\* tiles per chunk side, world units per tile and chunks around the player
\* (URL parameters chunk, tile and radius)
CHUNK == 2

TILE == 1

RENDER_RADIUS == 1

\* a * num / den, rounded towards zero
Scaled(a, num, den) ==
  IF a >= 0 THEN (a * num) \div den ELSE 0 - (((0 - a) * num) \div den)

\* the terrain height in [0, 1): the noise is a fixed function of the world
\* position, here a stand-in for the hashed value noise
fbm(wx, wy) == 300 + (((wx \div 10) + 2 * (wy \div 10)) % 500)

isoProject(px, py, pz, cam) ==
  <<((px - cam.wx) - (py - cam.wy)) * cam.scale + cam.cx,
    Scaled(((px - cam.wx) + (py - cam.wy)) * cam.scale, 1, 2)
      - (pz * cam.zscale) + cam.cy>>

\* Math.floor(x / (CHUNK * TILE))
ChunkOf(x) == x \div (CHUNK * TILE * 1000)

Tiles == (0 .. CHUNK - 1) \X (0 .. CHUNK - 1)

\* the world position of tile t of chunk key
TileWorld(key, t) ==
  <<(key[1] * CHUNK * TILE + t[1] * TILE) * 1000,
    (key[2] * CHUNK * TILE + t[2] * TILE) * 1000>>

\* where tile t of chunk key is projected under camera cam
TileScreen(key, t, cam) ==
  isoProject(TileWorld(key, t)[1], TileWorld(key, t)[2],
             fbm(TileWorld(key, t)[1], TileWorld(key, t)[2]) * 6, cam)

\* the rectangles of a chunk's group element, each at its tile's projection
BuildChunk(key, cam) == [t \in Tiles |-> TileScreen(key, t, cam)]

\* a chunk is built when its entry is created and never again
ensureChunk(ld, key, stamp, cam) ==
  [k \in DOMAIN ld \cup {key} |->
     IF k # key THEN ld[k]
     ELSE IF key \in DOMAIN ld THEN [ld[key] EXCEPT !.stamp = stamp]
     ELSE [stamp |-> stamp, built |-> TRUE, element |-> BuildChunk(key, cam)]]

\* the chunk coordinates the frame's two loops visit
Around(ccx, ccy) ==
  (ccx - RENDER_RADIUS .. ccx + RENDER_RADIUS)
    \X (ccy - RENDER_RADIUS .. ccy + RENDER_RADIUS)

RECURSIVE EnsureAll(_, _, _, _)
EnsureAll(ld, keys, stamp, cam) ==
  IF keys = {} THEN ld
  ELSE EnsureAll(ensureChunk(ld, CHOOSE k \in keys : TRUE, stamp, cam),
                 keys \ {CHOOSE k \in keys : TRUE}, stamp, cam)

\* a cull that removes nothing
cullNothing(ld, stamp) == ld

cullOldChunks(ld, stamp) ==
  [k \in {c \in DOMAIN ld : ld[c].stamp = stamp} |-> ld[k]]

\* the keys held during a frame: ax = d - a, ay = s - w; the hover keys and
\* shift are not pressed (az = 0, sprint = 1)
Keys ==
  [ax : {-1, 0, 1}, ay : {-1, 0, 1}, az : {0}, sprint : {1}]

\* v += a * accel * dt, then damping and the clamp to maxSpeed
Velocity(v, a, sprint, damp, speed, dt) ==
  Clamp(Scaled(v + a * 20 * sprint * dt, damp, 100),
        0 - Scaled(speed, 1 + sprint, 2), Scaled(speed, 1 + sprint, 2))

\* the player after the velocity and position updates of updatePlayer
Moved(p, k, dt) ==
  [p EXCEPT
     !.vx = Velocity(p.vx, k.ax, k.sprint, 90, p.speed, dt),
     !.vy = Velocity(p.vy, k.ay, k.sprint, 90, p.speed, dt),
     !.vz = Velocity(p.vz, k.az, k.sprint, 85, p.speed, dt),
     !.x = p.x + Scaled(Velocity(p.vx, k.ax, k.sprint, 90, p.speed, dt),
                        dt, 1000),
     !.y = p.y + Scaled(Velocity(p.vy, k.ay, k.sprint, 90, p.speed, dt),
                        dt, 1000)]

\* player.z hovers above the terrain at the new position
Hover(p) == [p EXCEPT !.z = fbm(p.x, p.y) * 6 + Scaled(p.vz, 2, 100)]

\* t = 1 - exp(-followStrength * dt), in thousandths
FollowT(cam, dt) ==
  (Scale - Exp(0 - cam.followStrength * dt * (Scale \div 1000))) \div 10000

lerp(a, b, t) == a + Scaled(b - a, t, 1000)

\* the camera follows the player smoothly
Follow(cam, p, dt) ==
  [cam EXCEPT !.wx = lerp(cam.wx, p.x, FollowT(cam, dt)),
              !.wy = lerp(cam.wy, p.y, FollowT(cam, dt))]

\* renderPlayer: the avatar's circles at the projection of the player
renderPlayer(p, cam) == isoProject(p.x, p.y, p.z + 1000, cam)

---------------------------------------------------------------------------
(* the 3D sandbox's command loop.  A line of input is the sequence of its  *)
(* characters; cout holds the most recent lines written, one entry for     *)
(* each message.                                                           *)

\* messages of the sandbox's output that are kept
CoutLines == 3

\* gameTime, in tenths of a second, stops growing here
MaxGameTime == 3

\* the upper-case letters and their lower-case counterparts
Letters ==
  [upper |->
     <<"A", "B", "C", "D", "E", "F", "G", "H", "I", "J", "K", "L", "M",
     "N", "O", "P", "Q", "R", "S", "T", "U", "V", "W", "X", "Y", "Z">>,
   lower |->
     <<"a", "b", "c", "d", "e", "f", "g", "h", "i", "j", "k", "l", "m",
     "n", "o", "p", "q", "r", "s", "t", "u", "v", "w", "x", "y", "z">>]

\* ::tolower on one character
tolower(c) ==
  IF \E i \in 1 .. 26 : Letters.upper[i] = c
    THEN Letters.lower[CHOOSE i \in 1 .. 26 : Letters.upper[i] = c]
    ELSE c

\* std::transform(cmd.begin(), cmd.end(), cmd.begin(), ::tolower)
ToLower(str) == [i \in 1 .. Len(str) |-> tolower(str[i])]

\* str.rfind(word, 0) == 0
StartsWith(str, word) ==
  Len(str) >= Len(word) /\ SubSeq(str, 1, Len(word)) = word

Digits == {"0", "1", "2", "3", "4", "5", "6", "7", "8", "9"}

RECURSIVE SkipSpace(_)
SkipSpace(str) ==
  IF str # <<>> /\ Head(str) = " " THEN SkipSpace(Tail(str)) ELSE str

RECURSIVE SkipDigits(_)
SkipDigits(str) ==
  IF str # <<>> /\ Head(str) \in Digits THEN SkipDigits(Tail(str)) ELSE str

\* the number of %lf conversions, of at most n, that str satisfies
RECURSIVE ScanDoubles(_, _)
ScanDoubles(str, n) ==
  IF n = 0 \/ SkipSpace(str) = <<>> \/ Head(SkipSpace(str)) \notin Digits
    THEN 0
    ELSE 1 + ScanDoubles(SkipDigits(SkipSpace(str)), n - 1)

\* sscanf(str, "<word> %lf %lf %lf", &x, &y, &z)
sscanf(str, word) ==
  IF StartsWith(str, word)
    THEN ScanDoubles(SubSeq(str, Len(word) + 1, Len(str)), 3)
    ELSE 0

\* the words processInput compares the command with
Word ==
  [quit |-> <<"q", "u", "i", "t">>,
   exit |-> <<"e", "x", "i", "t">>,
   help |-> <<"h", "e", "l", "p">>,
   jump |-> <<"j", "u", "m", "p">>,
   look |-> <<"l", "o", "o", "k">>,
   status |-> <<"s", "t", "a", "t", "u", "s">>,
   stat |-> <<"s", "t", "a", "t">>,
   create |-> <<"c", "r", "e", "a", "t", "e">>,
   destroy |-> <<"d", "e", "s", "t", "r", "o", "y">>,
   forward |-> <<"f", "o", "r", "w", "a", "r", "d">>,
   backward |-> <<"b", "a", "c", "k", "w", "a", "r", "d">>,
   back |-> <<"b", "a", "c", "k">>,
   left |-> <<"l", "e", "f", "t">>,
   right |-> <<"r", "i", "g", "h", "t">>]

\* the messages of printHelp
printHelp(show) == IF ~show THEN <<>> ELSE <<"=== CONTROLS ===">>

\* the key a movement command stands for, "" for none
MovementKey(cmd) ==
  IF Len(cmd) = 1 THEN cmd[1]
  ELSE IF cmd = Word.forward THEN "w"
  ELSE IF cmd \in {Word.backward, Word.back} THEN "s"
  ELSE IF cmd = Word.left THEN "a"
  ELSE IF cmd = Word.right THEN "d"
  ELSE ""

\* inputDir.magnitude() > 0
Moves(key) == key \in {"w", "s", "a", "d"}

handleMovementCommand(key) ==
  IF Moves(key) THEN <<"Player moved">> ELSE <<>>

handleCreateCommand(str) ==
  IF sscanf(str, Word.create) = 3 THEN <<"Created a block">>
  ELSE <<"Usage: create <x> <y> <z>">>

\* found is the result of world.destroyPlatform
handleDestroyCommand(str, found) ==
  IF sscanf(str, Word.destroy) # 3 THEN <<"Usage: destroy <x> <y> <z>">>
  ELSE IF found THEN <<"Destroyed a block">>
  ELSE <<"No block found">>

\* the branch of processInput that handles cmd
Branch(cmd) ==
  IF cmd = <<>> THEN "empty"
  ELSE IF cmd \in {Word.quit, Word.exit, <<"q">>} THEN "quit"
  ELSE IF cmd \in {Word.help, <<"h">>} THEN "help"
  ELSE IF cmd \in {Word.jump, <<"j">>, <<" ">>} THEN "jump"
  ELSE IF cmd \in {Word.look, <<"l">>} THEN "look"
  ELSE IF cmd \in {Word.status, Word.stat} THEN "status"
  ELSE IF StartsWith(cmd, Word.create) THEN "create"
  ELSE IF StartsWith(cmd, Word.destroy) THEN "destroy"
  ELSE IF Len(cmd) = 1 \/ MovementKey(cmd) # "" THEN "movement"
  ELSE "unknown"

\* what processInput writes for the line str; show is showHelp after the
\* toggle
Output(str, show, found) ==
  CASE Branch(ToLower(str)) = "help" -> printHelp(show)
    [] Branch(ToLower(str)) = "jump" -> <<"Player jumps!">>
    [] Branch(ToLower(str)) = "look" -> <<"world.draw()">>
    [] Branch(ToLower(str)) = "status" -> <<"=== GAME STATUS ===">>
    [] Branch(ToLower(str)) = "create" -> handleCreateCommand(str)
    [] Branch(ToLower(str)) = "destroy" -> handleDestroyCommand(str, found)
    [] Branch(ToLower(str)) = "movement" ->
         handleMovementCommand(MovementKey(ToLower(str)))
    [] Branch(ToLower(str)) = "unknown" ->
         <<"Unknown command", "Type 'help' for available commands.">>
    [] OTHER -> <<>>

\* out followed by msgs, the most recent CoutLines messages of it
Written(out, msgs) ==
  IF Len(out \o msgs) <= CoutLines THEN out \o msgs
  ELSE SubSeq(out \o msgs, Len(out \o msgs) - CoutLines + 1,
              Len(out \o msgs))

\* update(0.1): gameTime in tenths of a second
update(t) == Min(t + 1, MaxGameTime)

\* std::getline(std::cin, str): the stream after the call
getlineStream(in) ==
  IF in.eofbit THEN in
  ELSE IF in.lines = <<>> THEN [in EXCEPT !.eofbit = TRUE]
  ELSE [in EXCEPT !.lines = Tail(in.lines),
                  !.eofbit = Len(in.lines) = 1 /\ ~in.newline]

\* std::getline(std::cin, str): the string after the call; a stream that is
\* not good leaves it untouched
getlineString(in, str) ==
  IF in.eofbit THEN str
  ELSE IF in.lines = <<>> THEN <<>>
  ELSE Head(in.lines)

---------------------------------------------------------------------------
(* inputs *)

\* lines on the sandbox's standard input
MaxLines == 2

\* animation frames of the terrain demo in one behaviour
MaxFrames == 3

\* start coordinates of the player: the origin and just before the border
\* of chunk 0
StartSet == {0, 1950}

\* time-of-day is drawn from {0, 1/TodSteps, ..., 1}
TodSteps == 4

\* colour channels are drawn from {0, 1/ColSteps, ..., 1}
ColSteps == 2

TimeOfDaySet == {(k * Scale) \div TodSteps : k \in 0 .. TodSteps}

Levels == {(k * Scale) \div ColSteps : k \in 0 .. ColSteps}

\* the bright yellow of the end-to-end scenario, an orange and a blue whose
\* neon bias is 1.25, and a colour above 1.0
Yellow == <<9000000, 9000000, 1000000>>

ExtraColors == {Yellow, <<9000000, 5000000, 0>>, <<0, 5000000, 9000000>>}

\* colours in [0, 1]^3
Colors == (Levels \X Levels \X Levels) \cup ExtraColors

\* and colours a float16 buffer holds above 1.0
HdrColors == Colors \cup {<<2 * Scale, 2 * Scale, Half>>}

DeepBlue == <<1800000, 2500000, 3300000>>

NeonOrange == <<Scale, 7000000, 700000>>

NeonBlue == <<0, 7500000, Scale>>

Uniform(c) == [kind |-> "uniform", color |-> c]

Image(k, c) == [kind |-> k, color |-> c]

NoBuffer == <<>>

Centre == <<Half, Half>>

DefaultUniforms ==
  [uTimeOfDay |-> Half, uWeatherIntensity |-> 0,
   uBloomThreshold |-> 6000000, uBloomIntensity |-> Scale,
   uPixel |-> <<100000, 100000>>,
   uEdgeScale |-> Scale, uEdgeColor |-> NeonOrange,
   uTime |-> 0, uSpiralIntensity |-> 0, uSpiralCenter |-> Centre,
   uSpiralRadius |-> 3000000,
   uExposure |-> Scale, uGamma |-> Scale,
   uLift |-> 0, uGamma2 |-> Scale, uGain |-> Scale, uSaturation |-> Scale,
   uLightDir |-> <<0, 0, Scale>>, uBaseColor |-> DeepBlue,
   uAccent1 |-> NeonOrange, uAccent2 |-> NeonBlue,
   uStepCount |-> 3 * Scale, uBlueBias |-> 0, uGlow |-> 0,
   uFogColor |-> Vec3(Half), uFogDensity |-> 0,
   weather_intensity |-> 0, transition_factor |-> Scale, is_day |-> Scale]

\* identity grading, a graded preset, and a negative lift (which takes the
\* pow() base of a dark channel below zero)
Presets ==
  {[uLift |-> 0, uGamma2 |-> Scale, uGain |-> Scale, uSaturation |-> Scale,
    uExposure |-> Scale, uGamma |-> Scale],
   [uLift |-> 0 - 500000, uGamma2 |-> Scale, uGain |-> Scale,
    uSaturation |-> Scale, uExposure |-> Scale, uGamma |-> Scale],
   [uLift |-> 500000, uGamma2 |-> 2 * Scale, uGain |-> 12000000,
    uSaturation |-> Half, uExposure |-> 2 * Scale, uGamma |-> 2 * Scale]}

WithPreset(u, g) ==
  [u EXCEPT !.uLift = g.uLift, !.uGamma2 = g.uGamma2, !.uGain = g.uGain,
            !.uSaturation = g.uSaturation, !.uExposure = g.uExposure,
            !.uGamma = g.uGamma]

Idle ==
  /\ vNormal = <<0, 0, Scale>>
  /\ vPos = <<0, 0, 0 - Scale>>
  /\ uDepth = Uniform(Vec3(Half))
  /\ uNormals = Uniform(<<0, 0, Scale>>)
  /\ brightBuf = NoBuffer
  /\ blurBuf = NoBuffer
  /\ FragColor = <<0, 0, 0, 0>>

\* the player at the start position (URL parameters x and y), at rest
StartPlayer(x, y) ==
  [x |-> x, y |-> y, z |-> 0, vx |-> 0, vy |-> 0, vz |-> 0, speed |-> 7000]

\* the camera at the view centre, its world centre on the player
StartCamera(x, y) ==
  [cx |-> 600000, cy |-> 400000, scale |-> 24, zscale |-> 18,
   followStrength |-> 8, wx |-> x, wy |-> y]

\* the terrain demo not started
TerrainIdle ==
  /\ player = StartPlayer(0, 0)
  /\ camera = StartCamera(0, 0)
  /\ loaded = <<>>
  /\ frameStamp = 0
  /\ playerG = <<0, 0>>

\* the sandbox not started
SandboxIdle ==
  /\ running = TRUE
  /\ showHelp = TRUE
  /\ cin = [lines |-> <<>>, newline |-> TRUE, eofbit |-> FALSE]
  /\ command = <<>>
  /\ cout = <<>>
  /\ gameTime = 0

\* a frame whose bloom parameters and scene vary
InitBloom ==
  /\ TerrainIdle /\ SandboxIdle
  /\ Idle
  /\ \E tod \in TimeOfDaySet,
        t \in {0, Half, 6000000, Scale},
        i \in {0, Scale, 15000000} :
       uniforms = [DefaultUniforms EXCEPT !.uTimeOfDay = tod,
                                          !.uBloomThreshold = t,
                                          !.uBloomIntensity = i]
  /\ TexCoord = Centre
  /\ uScene \in {Uniform(c) : c \in Colors}
                \cup {Image("ramp", Vec3(Half)), Image("stepx", Vec3(Scale))}
  /\ uBloom = <<0, 0, 0>>
  /\ uOutlines = <<0, 0, 0, 0>>
  /\ pc = "bright"

\* a frame whose spiral parameters and fragment vary
InitSpiral ==
  /\ TerrainIdle /\ SandboxIdle
  /\ Idle
  /\ \E tod \in TimeOfDaySet,
        i \in {0 - Half, 0, 2000000, Half, Scale, 15000000},
        r \in {0, 3000000, Half},
        c \in {Centre, <<2500000, 7500000>>},
        t \in {0, Scale, 25000000} :
       uniforms = [DefaultUniforms EXCEPT !.uTimeOfDay = tod,
                                          !.uSpiralIntensity = i,
                                          !.uSpiralRadius = r,
                                          !.uSpiralCenter = c,
                                          !.uTime = t]
  /\ TexCoord \in {Centre, <<6000000, Half>>, <<Half, 3000000>>,
                   <<8000000, Half>>,
                   <<2500000, 7500000>>, <<9000000, 9000000>>}
  /\ uScene \in {Image("ramp", Vec3(Half)), Uniform(Vec3(Half))}
  /\ uBloom = <<0, 0, 0>>
  /\ uOutlines = <<0, 0, 0, 0>>
  /\ pc = "spiral"

\* a frame whose depth and normal buffers and edge parameters vary
InitOutline ==
  /\ TerrainIdle /\ SandboxIdle
  /\ vNormal = <<0, 0, Scale>>
  /\ vPos = <<0, 0, 0 - Scale>>
  /\ brightBuf = NoBuffer
  /\ blurBuf = NoBuffer
  /\ FragColor = <<0, 0, 0, 0>>
  /\ \E tod \in TimeOfDaySet,
        e \in {0, Half, Scale, 2 * Scale},
        c \in {NeonOrange, NeonBlue} :
       uniforms = [DefaultUniforms EXCEPT !.uTimeOfDay = tod,
                                          !.uEdgeScale = e,
                                          !.uEdgeColor = c]
  /\ TexCoord \in {Centre, <<2500000, 7500000>>}
  /\ uDepth \in {Uniform(Vec3(d)) : d \in Levels}
                \cup {Image("ramp", Vec3(Half)), Image("stepx", Vec3(Scale)),
                      Image("stepy", Vec3(Scale))}
  /\ uNormals \in {Uniform(<<0, 0, Scale>>), Uniform(<<Half, Half, Scale>>),
                   Image("ramp", Vec3(Scale)),
                   Image("stepx", <<0, 0, Scale>>),
                   Image("stepy", <<0, 0, Scale>>)}
  /\ uScene = Uniform(Vec3(Half))
  /\ uBloom = <<0, 0, 0>>
  /\ uOutlines = <<0, 0, 0, 0>>
  /\ pc = "outline"

\* a frame whose composite inputs vary
InitComposite ==
  /\ TerrainIdle /\ SandboxIdle
  /\ Idle
  /\ \E tod \in TimeOfDaySet,
        w \in {0, Half, Scale},
        g \in Presets :
       uniforms = WithPreset([DefaultUniforms EXCEPT !.uTimeOfDay = tod,
                                                     !.uWeatherIntensity = w],
                             g)
  /\ TexCoord \in {Centre, <<0, 0>>}
  /\ uScene \in {Uniform(c) : c \in HdrColors}
  /\ uBloom \in {<<0, 0, 0>>, Vec3(Half)}
  /\ uOutlines \in {<<0, 0, 0, 0>>, <<Scale, 7000000, 700000, 0>>,
                    <<Scale, 7000000, 700000, Half>>, <<0, 0, 0, Scale>>,
                    <<Scale, 7000000, 700000, Scale>>}
  /\ pc = "composite"

\* a surface fragment whose normal, position, light and atmosphere vary
InitCel ==
  /\ TerrainIdle /\ SandboxIdle
  /\ vNormal \in {<<0, 0, Scale>>, <<0, Scale, 0>>, <<Scale, Scale, 0>>}
  /\ vPos \in {<<0, 0, 0 - 2 * Scale>>, <<Scale, 0, 0 - Scale>>}
  /\ uDepth = Uniform(Vec3(Half))
  /\ uNormals = Uniform(<<0, 0, Scale>>)
  /\ brightBuf = NoBuffer
  /\ blurBuf = NoBuffer
  /\ FragColor = <<0, 0, 0, 0>>
  /\ \E tod \in TimeOfDaySet,
        w \in {0, 2500000, Half, 7500000, Scale},
        l \in {<<0, 0, Scale>>, <<Half, Scale, 3000000>>},
        n \in {2, 3, 4},
        g \in {0, Half},
        d \in {0, 1000000} :
       uniforms = [DefaultUniforms EXCEPT !.uTimeOfDay = tod,
                                          !.uWeatherIntensity = w,
                                          !.uLightDir = l,
                                          !.uStepCount = n * Scale,
                                          !.uGlow = g,
                                          !.uFogDensity = d]
  /\ TexCoord = Centre
  /\ uScene = Uniform(Vec3(Half))
  /\ uBloom = <<0, 0, 0>>
  /\ uOutlines = <<0, 0, 0, 0>>
  /\ pc = "cel"

\* a surface fragment of the WGSL shader
InitWgsl ==
  /\ TerrainIdle /\ SandboxIdle
  /\ vNormal \in {<<0, 0, Scale>>, <<0, Scale, 0>>, <<Scale, Scale, 0>>,
                  <<Half, Scale, 3000000>>, <<Scale, 0, 0>>,
                  <<0 - Scale, 0, 0>>}
  /\ vPos = <<0, 0, 0 - Scale>>
  /\ uDepth = Uniform(Vec3(Half))
  /\ uNormals = Uniform(<<0, 0, Scale>>)
  /\ brightBuf = NoBuffer
  /\ blurBuf = NoBuffer
  /\ FragColor = <<0, 0, 0, 0>>
  /\ \E w \in {0, Half, Scale},
        d \in {0, Scale},
        t \in TimeOfDaySet :
       uniforms = [DefaultUniforms EXCEPT !.weather_intensity = w,
                                          !.is_day = d,
                                          !.transition_factor = t]
  /\ TexCoord = Centre
  /\ uScene = Uniform(Vec3(Half))
  /\ uBloom = <<0, 0, 0>>
  /\ uOutlines = <<0, 0, 0, 0>>
  /\ pc = "wgsl"

\* the shaders not in use
ShadersIdle ==
  /\ Idle
  /\ uniforms = DefaultUniforms
  /\ TexCoord = Centre
  /\ uScene = Uniform(Vec3(Half))
  /\ uBloom = <<0, 0, 0>>
  /\ uOutlines = <<0, 0, 0, 0>>

\* the terrain demo loaded with a start position, before the first frame
InitTerrain ==
  /\ ShadersIdle /\ SandboxIdle
  /\ \E x \in StartSet, y \in StartSet :
       /\ player = StartPlayer(x, y)
       /\ camera = StartCamera(x, y)
  /\ loaded = <<>>
  /\ frameStamp = 0
  /\ playerG = <<0, 0>>
  /\ pc = "raf"

\* the lines a player types
Lines ==
  {<<>>, Word.quit, <<"Q">>, Word.help, <<"H">>, Word.look, <<"w">>,
   <<"x">>, Word.forward, Word.jump, Word.status,
   <<"d", "a", "n", "c", "e">>,
   <<"c", "r", "e", "a", "t", "e", " ", "1", " ", "2", " ", "3">>,
   <<"C", "R", "E", "A", "T", "E", " ", "1", " ", "2", " ", "3">>,
   <<"d", "e", "s", "t", "r", "o", "y", " ", "1", " ", "2", " ", "3">>}

RECURSIVE Inputs(_)
Inputs(n) ==
  IF n = 0 THEN {<<>>}
  ELSE Inputs(n - 1)
         \cup {Append(in, l) : in \in Inputs(n - 1), l \in Lines}

\* the sandbox constructed, main about to call run; standard input holds
\* at most MaxLines lines and the last one may lack its newline
InitSandbox ==
  /\ ShadersIdle /\ TerrainIdle
  /\ running = TRUE
  /\ showHelp = TRUE
  /\ \E in \in Inputs(MaxLines), nl \in BOOLEAN :
       /\ in = <<>> => nl
       /\ cin = [lines |-> in, newline |-> nl, eofbit |-> FALSE]
  /\ command = <<>>
  /\ cout = <<"=== 3D SANDBOX GAME ===">>
  /\ gameTime = 0
  /\ pc = "main"

Init ==
  InitBloom \/ InitSpiral \/ InitOutline \/ InitComposite \/ InitCel
    \/ InitWgsl \/ InitTerrain \/ InitSandbox

---------------------------------------------------------------------------
(* draw calls *)

\* bloom.frag with uPass = 0 over the window, reading the scene
BrightPass ==
  /\ pc = "bright"
  /\ \E undef \in (IF Scale - DynamicThreshold(uniforms) = 0
                   THEN UndefinedFloats ELSE {0}) :
       brightBuf' =
         [o \in Window |->
            BrightPassFS(Texture(uScene,
                                 Offset(TexCoord, uniforms.uPixel, o[1], o[2])),
                         uniforms, undef)]
  /\ FragColor' = brightBuf'[<<0, 0>>]
  /\ pc' = "blurH"
  /\ UNCHANGED <<terrain, sandbox, uniforms, TexCoord, vNormal, vPos, uScene,
                 uDepth, uNormals, uBloom, uOutlines, blurBuf>>

\* bloom.frag with uPass = 1, reading the bright-pass buffer
BlurHorizontal ==
  /\ pc = "blurH"
  /\ blurBuf' = [j \in Taps |->
                   BlurHorizontalFS([i \in Taps |-> brightBuf[<<i, j>>]])]
  /\ FragColor' = blurBuf'[0]
  /\ pc' = "blurV"
  /\ UNCHANGED <<terrain, sandbox, uniforms, TexCoord, vNormal, vPos, uScene,
                 uDepth, uNormals, uBloom, uOutlines, brightBuf>>

\* bloom.frag with uPass = 2, reading the horizontally blurred buffer; its
\* output is the bloom buffer the composite samples
BlurVertical ==
  /\ pc = "blurV"
  /\ FragColor' = BlurVerticalFS(blurBuf, uniforms)
  /\ uBloom' = Rgb(FragColor')
  /\ pc' = "composite"
  /\ UNCHANGED <<terrain, sandbox, uniforms, TexCoord, vNormal, vPos, uScene,
                 uDepth, uNormals, uOutlines, brightBuf, blurBuf>>

\* spiral.frag
SpiralPass ==
  /\ pc = "spiral"
  /\ \E undefAngle \in (IF TexCoord = uniforms.uSpiralCenter
                        THEN {0, Pi \div 2, Pi} ELSE {0}) :
       FragColor' = SpiralFS(uScene, TexCoord, uniforms, undefAngle)
  /\ pc' = "done"
  /\ UNCHANGED <<terrain, sandbox, uniforms, TexCoord, vNormal, vPos, uScene,
                 uDepth, uNormals, uBloom, uOutlines, brightBuf, blurBuf>>

\* outline.frag; its output is the outline buffer the composite samples
OutlinePass ==
  /\ pc = "outline"
  /\ FragColor' = OutlineFS(uDepth, uNormals, TexCoord, uniforms)
  /\ uOutlines' = FragColor'
  /\ pc' = "composite"
  /\ UNCHANGED <<terrain, sandbox, uniforms, TexCoord, vNormal, vPos, uScene,
                 uDepth, uNormals, uBloom, brightBuf, blurBuf>>

\* the cel shader on the surface fragment
CelPass ==
  /\ pc = "cel"
  /\ FragColor' = CelFS(vNormal, vPos, uniforms, 0)
  /\ pc' = "shaded"
  /\ UNCHANGED <<terrain, sandbox, uniforms, TexCoord, vNormal, vPos, uScene,
                 uDepth, uNormals, uBloom, uOutlines, brightBuf, blurBuf>>

\* the WGSL cel shader on the surface fragment
WgslPass ==
  /\ pc = "wgsl"
  /\ FragColor' = WgslFS(vNormal, uniforms, 0)
  /\ pc' = "wgslShaded"
  /\ UNCHANGED <<terrain, sandbox, uniforms, TexCoord, vNormal, vPos, uScene,
                 uDepth, uNormals, uBloom, uOutlines, brightBuf, blurBuf>>

\* one animation frame of the terrain demo, dt at its cap of 0.05 s: the
\* player moves with the keys held, the camera follows, the chunks around
\* the player are ensured, the avatar is redrawn and the old chunks culled
frame ==
  /\ pc = "raf"
  /\ frameStamp < MaxFrames
  /\ frameStamp' = frameStamp + 1
  /\ \E k \in Keys : player' = Hover(Moved(player, k, 50))
  /\ camera' = Follow(camera, player', 50)
  /\ loaded' =
       cullOldChunks(EnsureAll(loaded,
                               Around(ChunkOf(player'.x), ChunkOf(player'.y)),
                               frameStamp', camera'),
                     frameStamp')
  /\ playerG' = renderPlayer(player', camera')
  /\ UNCHANGED <<shaders, sandbox, pc>>

\* run up to its loop: the help is printed
run ==
  /\ pc = "main"
  /\ cout' = Written(cout, printHelp(showHelp))
  /\ pc' = "while"
  /\ UNCHANGED <<shaders, terrain, running, showHelp, cin, command,
                 gameTime>>

\* the loop test passes and the prompt is written
while ==
  /\ pc = "while" /\ running
  /\ cout' = Written(cout, <<"> ">>)
  /\ pc' = "getline"
  /\ UNCHANGED <<shaders, terrain, running, showHelp, cin, command,
                 gameTime>>

\* std::getline and the test of the line read; its result is not looked at
getline ==
  /\ pc = "getline"
  /\ cin' = getlineStream(cin)
  /\ command' = getlineString(cin, command)
  /\ pc' = IF command' # <<>> THEN "processInput" ELSE "while"
  /\ UNCHANGED <<shaders, terrain, running, showHelp, cout, gameTime>>

processInput ==
  /\ pc = "processInput"
  /\ running' = (running /\ Branch(ToLower(command)) # "quit")
  /\ showHelp' = IF Branch(ToLower(command)) = "help" THEN ~showHelp
                 ELSE showHelp
  /\ gameTime' = IF /\ Branch(ToLower(command)) = "movement"
                    /\ Moves(MovementKey(ToLower(command)))
                 THEN update(gameTime) ELSE gameTime
  /\ \E found \in BOOLEAN :
       cout' = Written(cout, Output(command, showHelp', found))
  /\ pc' = "while"
  /\ UNCHANGED <<shaders, terrain, cin, command>>

\* the loop left: run returns
return ==
  /\ pc = "while" /\ ~running
  /\ cout' = Written(cout, <<"Thanks for playing the 3D Sandbox Game!">>)
  /\ pc' = "returned"
  /\ UNCHANGED <<shaders, terrain, running, showHelp, cin, command,
                 gameTime>>

\* With non-negative inputs and positive gammas every pow() base and every
\* Reinhard denominator of the composite is defined.
CompositeDefined(scene, bloom, u) ==
  /\ \A k \in 1 .. 3 : scene[k] + bloom[k] + u.uLift >= 0
  /\ u.uGain >= 0 /\ u.uExposure >= 0
  /\ u.uSaturation >= 0 /\ u.uSaturation <= Scale
  /\ u.uWeatherIntensity >= 0 /\ u.uWeatherIntensity <= Scale
  /\ u.uTimeOfDay >= 0 /\ u.uTimeOfDay <= Scale

\* composite.frag
CompositePass ==
  /\ pc = "composite"
  /\ \E undef \in (IF CompositeDefined(Texture(uScene, TexCoord), uBloom,
                                        uniforms)
                   THEN {0} ELSE UndefinedFloats) :
       FragColor' = CompositeFS(Texture(uScene, TexCoord), uBloom, uOutlines,
                                TexCoord, uniforms, undef)
  /\ pc' = "done"
  /\ UNCHANGED <<terrain, sandbox, uniforms, TexCoord, vNormal, vPos, uScene,
                 uDepth, uNormals, uBloom, uOutlines, brightBuf, blurBuf>>

Next ==
  \/ BrightPass
  \/ BlurHorizontal
  \/ BlurVertical
  \/ SpiralPass
  \/ OutlinePass
  \/ CompositePass
  \/ CelPass
  \/ WgslPass
  \/ frame
  \/ run
  \/ while
  \/ getline
  \/ processInput
  \/ return

Spec == Init /\ [][Next]_vars

NextBloom == BrightPass \/ BlurHorizontal \/ BlurVertical \/ CompositePass

SpecBloom == InitBloom /\ [][NextBloom]_vars

SpecSpiral == InitSpiral /\ [][SpiralPass]_vars

NextOutline == OutlinePass \/ CompositePass

SpecOutline == InitOutline /\ [][NextOutline]_vars

SpecComposite == InitComposite /\ [][CompositePass]_vars

SpecCel == InitCel /\ [][CelPass]_vars

SpecTerrain == InitTerrain /\ [][frame]_vars

NextSandbox == run \/ while \/ getline \/ processInput \/ return

SpecSandbox == InitSandbox /\ [][NextSandbox]_vars

\* the process is never suspended for ever
SpecSandboxFair == SpecSandbox /\ WF_vars(NextSandbox)

\* the two cel shaders
NextShade == CelPass \/ WgslPass

SpecShade == (InitCel \/ InitWgsl) /\ [][NextShade]_vars

\* the two passes that read the weather intensity
NextWeather == CelPass \/ CompositePass

SpecWeather == (InitCel \/ InitComposite) /\ [][NextWeather]_vars

---------------------------------------------------------------------------
(* properties *)

\* a and b agree to a relative 1e-5 (absolute below 1.0)
Close(a, b) == Abs(a - b) <= Max(Abs(b), Scale) \div 100000

Close3(a, b) == \A k \in 1 .. 3 : Close(a[k], b[k])

Black == <<0, 0, 0>>

ScenePixel == Texture(uScene, TexCoord)

BrightDone == pc \in {"blurH", "blurV", "composite", "done"} /\ brightBuf # NoBuffer

BloomDone == pc \in {"composite", "done"} /\ brightBuf # NoBuffer

\* the bright-pass output of the tracked fragment
Seed == Rgb(brightBuf[<<0, 0>>])

YellowScene == uScene = Uniform(Yellow) /\ uniforms.uBloomThreshold = 6000000

\* C1 as stated: for the scene pixel (0.9, 0.9, 0.1) and threshold 0.6 the
\* bloom seed is (0.675, 0.675, 0.075), the blur leaves it unchanged and
\* scene + bloom is about (1.575, 1.575, 0.175).
C1_SeedIsThreeQuarters ==
  YellowScene =>
    /\ BrightDone => Close3(Seed, <<6750000, 6750000, 750000>>)
    /\ BloomDone =>
         /\ Close3(uBloom, <<6750000, 6750000, 750000>>)
         /\ Close3(CombineSceneBloom(ScenePixel, uBloom),
                   <<15750000, 15750000, 1750000>>)

\* C1 amended: for the scene pixel (0.9, 0.9, 0.1), threshold 0.6,
\* time-of-day 0.5 and bloom intensity 1.0 the brightness is the neon bias
\* 1.224, the factor 1.56 and the seed (1.404, 1.404, 0.156); the blur of
\* the uniform field leaves the seed unchanged and scene + bloom is
\* (2.304, 2.304, 0.256).
C1_EndToEnd ==
  (YellowScene /\ uniforms.uTimeOfDay = Half /\ uniforms.uBloomIntensity = Scale)
  =>
    /\ BrightDone => Seed = <<14040000, 14040000, 1560000>>
    /\ BloomDone =>
         /\ Close3(uBloom, <<14040000, 14040000, 1560000>>)
         /\ Close3(CombineSceneBloom(ScenePixel, uBloom),
                   <<23040000, 23040000, 2560000>>)

C1_Witness ==
  /\ YellowScene /\ uniforms.uTimeOfDay = Half
  /\ uniforms.uBloomIntensity = Scale
  /\ pc = "done" /\ BloomDone
  /\ Seed = <<14040000, 14040000, 1560000>>

UniformField == uScene.kind = "uniform"

\* C2 as stated: the horizontal then vertical blur of a uniform buffer
\* returns the same uniform colour, for every intensity and time-of-day.
C2_BlurReturnsSameColour == (BloomDone /\ UniformField) => Close3(uBloom, Seed)

\* C2 amended: the horizontal blur of a uniform buffer returns the same
\* colour, and the vertical blur returns that colour scaled by
\* uBloomIntensity * (1.3 - 0.6 * uTimeOfDay); the two-pass result is the
\* input colour when that scale is 1.0.
C2_BlurScalesByIntensity ==
  UniformField =>
    /\ (pc \in {"blurV", "composite", "done"} /\ blurBuf # NoBuffer) =>
         \A j \in Taps : Close3(blurBuf[j], Seed)
    /\ BloomDone =>
         LET scale == Mul(uniforms.uBloomIntensity,
                          13000000 - Mul(6000000, uniforms.uTimeOfDay))
         IN  /\ Close3(uBloom, VScale(Seed, scale))
             /\ scale = Scale => Close3(uBloom, Seed)

C2_Witness ==
  /\ BloomDone /\ UniformField /\ Seed # Black
  /\ uniforms.uBloomIntensity = 15000000 /\ uniforms.uTimeOfDay = 0
  /\ ~Close3(uBloom, Seed)

IdentityGrading ==
  /\ uniforms.uLift = 0 /\ uniforms.uGamma2 = Scale /\ uniforms.uGain = Scale
  /\ uniforms.uSaturation = Scale /\ uniforms.uExposure = Scale
  /\ uniforms.uGamma = Scale

SceneOnly == uBloom = Black /\ uOutlines[4] = 0 /\ brightBuf = NoBuffer

Composited == pc = "done" /\ uniforms.uSpiralIntensity = 0

\* C3 as stated: under identity grading, bloom 0 and outline alpha 0 the
\* composite output is within 0.01 per channel of c / (c + 1).
C3_WithinOneHundredth ==
  (Composited /\ IdentityGrading /\ SceneOnly) =>
    \A k \in 1 .. 3 :
      Abs(FragColor[k] - Div(ScenePixel[k], ScenePixel[k] + Scale)) <= 100000

\* C3 amended: under identity grading, bloom 0, outline alpha 0, weather
\* intensity at most 0.5 and a scene colour in [0, 1]^3, the composite
\* output is b / (b + 1) times the atmospheric factor
\* 0.95 + 0.1 * sin(timeOfDay * 3.14159) times the vignette
\* 1 - 0.3 * |TexCoord - 0.5|^2, where b is the scene colour with its blue
\* channel raised by (0.3 - 0.2 * timeOfDay) * (1 - blue).
C3_IdentityComposite ==
  (/\ Composited /\ IdentityGrading /\ SceneOnly
   /\ uniforms.uWeatherIntensity <= Half
   /\ \A k \in 1 .. 3 : ScenePixel[k] >= 0 /\ ScenePixel[k] <= Scale)
  =>
    LET c     == ScenePixel
        bias  == 3000000 - Mul(2000000, uniforms.uTimeOfDay)
        b     == <<c[1], c[2], c[3] + Mul(bias, Scale - c[3])>>
        atmos == 9500000 + Mul(1000000, Sin(Mul(uniforms.uTimeOfDay, 31415900)))
        dx    == TexCoord[1] - Half
        dy    == TexCoord[2] - Half
        vig   == Scale - Mul(3000000, Mul(dx, dx) + Mul(dy, dy))
    IN  \A k \in 1 .. 3 :
          Close(FragColor[k], Mul(Mul(Div(b[k], b[k] + Scale), atmos), vig))

C3_Witness ==
  /\ Composited /\ IdentityGrading /\ SceneOnly
  /\ uniforms.uWeatherIntensity <= Half
  /\ ScenePixel = <<Half, Half, 0>> /\ TexCoord = <<0, 0>>
  /\ uOutlines = <<Scale, 7000000, 700000, 0>>
  /\ Abs(FragColor[3] - Div(ScenePixel[3], ScenePixel[3] + Scale)) > 100000

AtTime(u, tod) == [u EXCEPT !.uTimeOfDay = tod]

\* C4 as stated: from time-of-day 0.0 to 1.0 the bright-pass threshold gets
\* lower and the vertical-blur intensity scale gets higher.
C4_NightBiasConsistent ==
  (BloomDone /\ uniforms.uBloomThreshold > 0 /\ uniforms.uBloomIntensity > 0)
  =>
    /\ DynamicThreshold(AtTime(uniforms, Scale))
         < DynamicThreshold(AtTime(uniforms, 0))
    /\ BloomIntensity(AtTime(uniforms, Scale))
         > BloomIntensity(AtTime(uniforms, 0))

SpiralDone == pc = "done" /\ uBloom = Black /\ brightBuf = NoBuffer
              /\ uOutlines = <<0, 0, 0, 0>> /\ FragColor[4] = Scale

\* C5: for spiral intensity <= 0 the spiral pass outputs the colour of the
\* scene at the fragment's own coordinate, whatever the centre, radius,
\* time and time-of-day.
C5_SpiralPassThrough ==
  (SpiralDone /\ uniforms.uSpiralIntensity <= 0) =>
    Rgb(FragColor) = ScenePixel

C5_Witness ==
  /\ SpiralDone /\ uniforms.uSpiralIntensity < 0
  /\ uScene.kind = "ramp"
  /\ TexCoord # uniforms.uSpiralCenter
  /\ SpiralDistance(TexCoord, uniforms) < Mul(uniforms.uSpiralRadius, 8000000)
  /\ uniforms.uTime > 0
  /\ Rgb(FragColor) = ScenePixel

\* C6: a pixel whose brightness equals the threshold it is compared with
\* gives black, and only a brightness strictly above the threshold gives
\* colour.
C6_BoundaryExclusive ==
  BrightDone =>
    /\ Brightness(ScenePixel) = DynamicThreshold(uniforms) => Seed = Black
    /\ Seed # Black => Brightness(ScenePixel) > DynamicThreshold(uniforms)

C6_Witness ==
  /\ BrightDone /\ ScenePixel # Black
  /\ Brightness(ScenePixel) = DynamicThreshold(uniforms)
  /\ Seed = Black

\* C7: with bloom threshold 0.0 a pixel of brightness exactly 1.0 leaves
\* the bright pass with its input colour, at every time-of-day.
C7_FullBrightnessKeepsColour ==
  (BrightDone /\ uniforms.uBloomThreshold = 0
   /\ Brightness(ScenePixel) = Scale)
  => Seed = ScenePixel

C7_Witness ==
  /\ BrightDone /\ uniforms.uBloomThreshold = 0
  /\ Brightness(ScenePixel) = Scale /\ ScenePixel # Black
  /\ uniforms.uTimeOfDay = Scale
  /\ Seed = ScenePixel

\* the blur of a field of ones: the centre weight plus twice the side weights
KernelSum == Blur9([i \in Taps |-> <<Scale, Scale, Scale>>])[1]

\* C8: the weights the 9-tap blur applies sum to 1.0 within 1e-5.
C8_KernelNormalised ==
  (pc \in {"blurV", "composite", "done"} /\ blurBuf # NoBuffer) =>
    Abs(KernelSum - Scale) <= 100

C8_Witness ==
  /\ pc = "blurV" /\ blurBuf # NoBuffer
  /\ uScene = Uniform(<<Scale, Scale, Scale>>)
  /\ Seed # Black
  /\ Close3(blurBuf[0], Seed)

OutlineDone == pc \in {"composite", "done"} /\ uScene = Uniform(Vec3(Half))
               /\ brightBuf = NoBuffer /\ uniforms.uSpiralIntensity = 0
               /\ uniforms.uWeatherIntensity = 0 /\ uBloom = Black

\* the texture is constant over the four samples the pass reads
Flat(tex) ==
  \A o \in Corners :
    Texture(tex, Offset(TexCoord, uniforms.uPixel, o[1], o[2]))
      = Texture(tex, Offset(TexCoord, uniforms.uPixel, -1, -1))

\* C9: where depth and normals are constant over the sampled neighbourhood
\* the edge strength (alpha) written by the edge pass is 0, for every edge
\* scale and time-of-day.
C9_FlatSurface ==
  (OutlineDone /\ Flat(uDepth) /\ Flat(uNormals)) => uOutlines[4] = 0

C9_Witness ==
  /\ OutlineDone /\ Flat(uDepth) /\ Flat(uNormals)
  /\ uDepth = Uniform(Vec3(Scale))
  /\ uniforms.uEdgeScale = 2 * Scale
  /\ uOutlines[4] = 0

\* C10: the vertical-blur scale is 0.7 * uBloomIntensity at time-of-day 1.0
\* and 1.3 * uBloomIntensity at 0.0, so for a non-zero intensity and a
\* non-black blurred input the two outputs differ.
C10_DayNightScalesDiffer ==
  (pc \in {"blurV", "composite", "done"} /\ blurBuf # NoBuffer) =>
    /\ BloomIntensity(AtTime(uniforms, Scale))
         = Mul(uniforms.uBloomIntensity, 7000000)
    /\ BloomIntensity(AtTime(uniforms, 0))
         = Mul(uniforms.uBloomIntensity, 13000000)
    /\ (uniforms.uBloomIntensity # 0 /\ Blur9(blurBuf) # Black) =>
         BlurVerticalFS(blurBuf, AtTime(uniforms, Scale))
           # BlurVerticalFS(blurBuf, AtTime(uniforms, 0))

C10_Witness ==
  /\ BloomDone /\ uniforms.uTimeOfDay = Scale
  /\ uniforms.uBloomIntensity = Scale /\ Blur9(blurBuf) # Black
  /\ Close3(uBloom, VScale(Blur9(blurBuf), 7000000))
  /\ uBloom # Rgb(BlurVerticalFS(blurBuf, AtTime(uniforms, 0)))

\* the atmospheric and vignette factors of the fragment, written out
AtmosVignette ==
  LET atmos == 9500000 + Mul(1000000, Sin(Mul(uniforms.uTimeOfDay, 31415900)))
      dx    == TexCoord[1] - Half
      dy    == TexCoord[2] - Half
  IN  <<atmos, Scale - Mul(3000000, Mul(dx, dx) + Mul(dy, dy))>>

CompositeWith(o, x) ==
  CompositeFS(ScenePixel, uBloom, o, TexCoord, uniforms, x)

\* C12: an outline alpha of 0 is fully transparent: the composite output is
\* the one obtained with no outline at all, whatever the outline's RGB is.
C12_ZeroAlphaTransparent ==
  (Composited /\ uOutlines[4] = 0) =>
    \E x \in UndefinedFloats : FragColor = CompositeWith(<<0, 0, 0, 0>>, x)

C12_Witness ==
  /\ Composited /\ uOutlines = <<Scale, 7000000, 700000, 0>>
  /\ ScenePixel = <<Half, Half, 0>> /\ uBloom = Black
  /\ Rgb(FragColor) # Black /\ Rgb(FragColor) # Rgb(uOutlines)

\* the colour the composite hands to toneMap when the undefined operations,
\* if any, yield x
Graded(x) == colorGrade(CombineSceneBloom(ScenePixel, uBloom), uniforms, x)

\* C13: with exposure 1 and display gamma 1, every channel toneMap returns
\* for a non-negative graded colour lies in [0, 1].
C13_ToneMapInRange ==
  (pc = "done" /\ uniforms.uExposure = Scale /\ uniforms.uGamma = Scale) =>
    \A x \in UndefinedFloats :
      (\A k \in 1 .. 3 : Graded(x)[k] >= 0) =>
        \A k \in 1 .. 3 :
          /\ toneMap(Graded(x), uniforms, x)[k] >= 0
          /\ toneMap(Graded(x), uniforms, x)[k] <= Scale

\* the distance of the fragment from the spiral centre
FragmentDistance == SpiralDistance(TexCoord, uniforms)

\* C14: a fragment whose distance from the spiral centre is at least the
\* radius comes out with the scene colour at its own coordinate, for every
\* intensity, time and time-of-day.
C14_OutsideRadiusUntouched ==
  (SpiralDone /\ FragmentDistance >= uniforms.uSpiralRadius) =>
    FragColor = WithAlpha(ScenePixel, Scale)

C14_Witness ==
  /\ SpiralDone /\ uniforms.uSpiralRadius = 3000000
  /\ FragmentDistance = 3000000 /\ TexCoord = <<8000000, Half>>
  /\ uniforms.uSpiralIntensity = 15000000 /\ uniforms.uTime = 25000000
  /\ uScene.kind = "ramp"
  /\ FragColor = <<8000000, Half, Half, Scale>>

\* C15: the factor that blends the original and the warped coordinate in the
\* spiral pass never leaves [0, 1], also for an intensity above 1.
C15_BlendFactorClamped ==
  (SpiralDone /\ InSpiral(FragmentDistance, uniforms)) =>
    /\ SpiralAmount(FragmentDistance, uniforms) >= 0
    /\ SpiralAmount(FragmentDistance, uniforms) <= Scale

CelDone == pc = "shaded"

WgslDone == pc = "wgslShaded"

\* the uniforms with the weather intensity set to 0
ClearWeather == [uniforms EXCEPT !.uWeatherIntensity = 0]

\* C20: storm grading is gated strictly above 0.5: for every weather
\* intensity up to and including 0.5 the composite's output is its output at
\* weather intensity 0, and the cel shader's output is the one obtained from
\* the colour it computes at weather intensity 0, the rim glow alone using
\* the actual weather intensity.
C20_StormGatedAboveHalf ==
  /\ (Composited /\ uniforms.uWeatherIntensity <= Half) =>
       \E x \in UndefinedFloats :
         FragColor = CompositeFS(ScenePixel, uBloom, uOutlines, TexCoord,
                                 ClearWeather, x)
  /\ (CelDone /\ uniforms.uWeatherIntensity <= Half) =>
       FragColor =
         WithAlpha(CelFog(CelRimGlow(CelLit(vNormal, ClearWeather, 0),
                                     CelRim(vNormal, vPos, 0), uniforms),
                          vPos, uniforms),
                   Scale)

\* a fragment at weather intensity exactly 0.5 whose colour differs from the
\* clear-weather colour through the rim glow only
C20_Witness ==
  /\ CelDone /\ uniforms.uWeatherIntensity = Half
  /\ CelRim(vNormal, vPos, 0) > 7500000 /\ uniforms.uGlow = Half
  /\ FragColor # CelFS(vNormal, vPos, ClearWeather, 0)
  /\ CelLit(vNormal, uniforms, 0) = CelLit(vNormal, ClearWeather, 0)
  /\ CelLit(vNormal, uniforms, 0) #
       CelLit(vNormal, [uniforms EXCEPT !.uWeatherIntensity = 7500000], 0)

\* C21: in the edge pass the time-of-day at which the edge threshold is
\* 0.015 gives black edges, and the time-of-day at which it is 0.025 gives
\* edges of the configured edge colour.
C21_DayNightEndsAgree ==
  OutlineDone =>
    /\ EdgeThreshold(uniforms) = 150000 => Rgb(uOutlines) = Black
    /\ EdgeThreshold(uniforms) = 250000 => Rgb(uOutlines) = uniforms.uEdgeColor

\* C25: a depth discontinuity along y alone (the samples at -uPixel.y and
\* +uPixel.y differ by 1.0, those along x are equal) yields the full edge
\* strength uEdgeScale, as the same discontinuity along x does.
C25_OrientationIndependent ==
  (OutlineDone /\ TexCoord = Centre) =>
    /\ uDepth = Image("stepx", Vec3(Scale)) => uOutlines[4] = uniforms.uEdgeScale
    /\ uDepth = Image("stepy", Vec3(Scale)) => uOutlines[4] = uniforms.uEdgeScale

\* C26: for a colour in [0, 1]^3 and a bloom threshold and time-of-day in
\* [0, 1], whenever the bright pass takes the above-threshold branch the
\* denominator 1 - threshold is not zero, the factor
\* (brightness - threshold) / (1 - threshold) lies in (0, 1], and the
\* extracted colour is neither negative nor brighter than the input.
C26_FactorIsAttenuation ==
  (/\ BrightDone /\ UniformField
   /\ \A k \in 1 .. 3 : ScenePixel[k] >= 0 /\ ScenePixel[k] <= Scale
   /\ uniforms.uBloomThreshold >= 0 /\ uniforms.uBloomThreshold <= Scale
   /\ uniforms.uTimeOfDay >= 0 /\ uniforms.uTimeOfDay <= Scale
   /\ AboveThreshold(Brightness(ScenePixel), DynamicThreshold(uniforms)))
  =>
    /\ Scale - DynamicThreshold(uniforms) > 0
    /\ Brightness(ScenePixel) - DynamicThreshold(uniforms)
         <= Scale - DynamicThreshold(uniforms)
    /\ \A k \in 1 .. 3 : Seed[k] >= 0 /\ Seed[k] <= ScenePixel[k]

\* the GLSL quantisation of the lighting term x with uStepCount = 3
GlslStepped3(x) == CelStepped(x, [uniforms EXCEPT !.uStepCount = 3 * Scale], 0)

\* C23: for the lighting term of every fragment, the quantised light of the
\* WGSL shader (step count 3) equals the quantised light of the GLSL cel
\* shader computed with uStepCount = 3.
C23_CopiesAgree ==
  /\ CelDone =>
       WgslStepped(CelNdl(vNormal, uniforms, 0))
         = GlslStepped3(CelNdl(vNormal, uniforms, 0))
  /\ WgslDone =>
       WgslStepped(WgslDot(vNormal, 0)) = GlslStepped3(WgslDot(vNormal, 0))

\* the quantised light of the shaded fragment
FragmentStepped == CelStepped(CelNdl(vNormal, uniforms, 0), uniforms, 0)

\* C24: for every step count in {2, 3, 4} and every lighting term in [0, 1]
\* the quantised light floor(ndl * stepCount) / (stepCount - 1) lies in
\* [0, 1].
C24_SteppedIsBlendWeight ==
  (CelDone /\ uniforms.uStepCount \in {2 * Scale, 3 * Scale, 4 * Scale}) =>
    FragmentStepped >= 0 /\ FragmentStepped <= Scale

\* the cel shader takes its night branch and mixes toward uAccent2 with a
\* non-zero weight
NightShift(u) ==
  ~(DayIntensity(u) > 0) /\ Mul(Abs(DayIntensity(u)), 4000000) # 0

\* C27: there is a time-of-day in [0, 1] at which the cel shader, with the
\* fragment's other inputs, takes its night branch with a non-zero weight.
C27_NightBranchReachable ==
  CelDone =>
    \E tod \in TimeOfDaySet :
      NightShift([uniforms EXCEPT !.uTimeOfDay = tod])

\* the chunk containing the player
PlayerChunk == <<ChunkOf(player.x), ChunkOf(player.y)>>

\* C22: at the end of every frame of the terrain demo the loaded chunks are
\* exactly the (2R+1) x (2R+1) square of chunk coordinates centred on the
\* chunk containing the player.
C22_StreamingWindow ==
  frameStamp > 0 =>
    /\ \A k \in DOMAIN loaded :
         /\ Abs(k[1] - PlayerChunk[1]) <= RENDER_RADIUS
         /\ Abs(k[2] - PlayerChunk[2]) <= RENDER_RADIUS
    /\ Cardinality(DOMAIN loaded)
         = (2 * RENDER_RADIUS + 1) * (2 * RENDER_RADIUS + 1)

\* the player has crossed into the next chunk after a frame in the first
\* one, so chunks of the first frame have been removed and new ones built
C22_Witness ==
  /\ frameStamp >= 2 /\ PlayerChunk = <<1, 0>>
  /\ camera.wx < player.x /\ camera.wx > 1950
  /\ <<2, 0>> \in DOMAIN loaded /\ <<-1, 0>> \notin DOMAIN loaded
  /\ loaded[<<2, 0>>].stamp = frameStamp

\* C28: in every frame each tile of every loaded chunk is on screen at
\* isoProject of its world position under the camera's current world
\* centre.
C28_TilesFollowCamera ==
  frameStamp > 0 =>
    \A k \in DOMAIN loaded : \A t \in Tiles :
      loaded[k].element[t] = TileScreen(k, t, camera)

\* the last message written before the prompt is the hint
Hinted ==
  /\ Len(cout) >= 2
  /\ cout[Len(cout)] = "> "
  /\ cout[Len(cout) - 1] = "Type 'help' for available commands."

\* C29: whenever the sandbox has just written "Type 'help' for available
\* commands." and the next command is help or h, processing that command
\* writes the controls list.
C29_HelpAfterHint ==
  [][(pc = "processInput" /\ Hinted /\ Branch(ToLower(command)) = "help")
       => cout'[Len(cout')] = "=== CONTROLS ==="]_vars

\* C30: run eventually returns, after a quit command and at end-of-file
\* alike.
C30_RunReturns == <>(pc = "returned")

====
